---- MODULE Spec2Model ----
(***************************************************************************)
(* Model of tfx/orchestration/portable/partial_run_utils.py:               *)
(* filter_pipeline and its helpers, which filter a compiled Pipeline IR    *)
(* to the nodes between from_nodes and to_nodes.                           *)
(*                                                                         *)
(* PipelineNode messages live in a heap and are named by references, as    *)
(* the Python code aliases the input pipeline's nodes in node_map and      *)
(* copies a node only when it rewrites it.                                 *)
(***************************************************************************)
EXTENDS Integers, Sequences, FiniteSets, TLC

VARIABLES
  input_pipeline,           \* the Pipeline proto passed by the caller
  heap,                     \* PipelineNode messages, by reference
  pc,                       \* position inside filter_pipeline
  from_nodes,               \* <<S>> once the from_nodes predicate was evaluated
  to_nodes,                 \* <<S>> once the to_nodes predicate was evaluated
  from_node_ids,            \* local of filter_pipeline
  to_node_ids,              \* local of filter_pipeline
  node_map,                 \* local of filter_pipeline (an OrderedDict)
  input_channel_map,        \* local of filter_pipeline / second returned value
  fixed_deployment_config,  \* local of filter_pipeline, <<>> is None
  filtered_pipeline,        \* <<p>> once built / first returned value
  error,                    \* "" or the exception that left filter_pipeline
  traverse_pc,              \* position inside a call of _traverse followed by itself
  traverse_direction,       \* argument direction of that call
  traverse_start_nodes,     \* argument start_nodes of that call, as a list
  traverse_index,           \* position of the for loop in start_nodes
  traverse_stack,           \* local stack of _traverse
  traverse_result,          \* local result of _traverse
  traverse_added,           \* per id, how often result.add(id) ran
  traverse_extended         \* per id, how often stack.extend ran for its neighbours

traverse_vars == <<traverse_pc, traverse_direction, traverse_start_nodes,
                   traverse_index, traverse_stack, traverse_result,
                   traverse_added, traverse_extended>>

vars == <<input_pipeline, heap, pc, from_nodes, to_nodes, from_node_ids,
          to_node_ids, node_map, input_channel_map, fixed_deployment_config,
          filtered_pipeline, error, traverse_pc, traverse_direction,
          traverse_start_nodes, traverse_index, traverse_stack, traverse_result,
          traverse_added, traverse_extended>>

----------------------------------------------------------------------------
(* Bounds and the input universe *)

MaxNodes == 3

\* the counts of result.add and stack.extend are kept up to this number
MaxCount == 2

AllIds == <<"A", "B", "C", "D">>

Ids == {AllIds[i] : i \in 1..MaxNodes}

Range(s) == {s[i] : i \in DOMAIN s}

None == <<>>

----------------------------------------------------------------------------
(* collections.OrderedDict: keys in insertion order, one value per key *)

OD_Empty == [keys |-> <<>>, vals |-> [k \in {} |-> <<>>]]

OD_Has(d, k) == k \in DOMAIN d.vals

\* d[k] = v : a new key goes last, an existing key keeps its place
OD_Set(d, k, v) ==
  [keys |-> IF OD_Has(d, k) THEN d.keys ELSE Append(d.keys, k),
   vals |-> [x \in (DOMAIN d.vals) \cup {k} |-> IF x = k THEN v ELSE d.vals[x]]]

\* d[k] += list on a collections.defaultdict(list)
OD_Extend(d, k, list) ==
  OD_Set(d, k, (IF OD_Has(d, k) THEN d.vals[k] ELSE <<>>) \o list)

OD_KeySet(d) == DOMAIN d.vals

----------------------------------------------------------------------------
(* Protobuf messages *)

SYNC == "SYNC"

ExecutionModes == {"EXECUTION_MODE_UNSPECIFIED", "SYNC", "ASYNC"}

Channel(producer, payload) ==
  [producer_node_query_id |-> producer, payload |-> payload]

PipelineNode(id, ups, downs, inputs) ==
  [node_info_id |-> id, upstream_nodes |-> ups, downstream_nodes |-> downs,
   inputs |-> inputs]

\* Pipeline.PipelineOrNode: a oneof of pipeline_node (a reference) and sub_pipeline
PipelineOrNode(kind, ref) == [kind |-> kind, pipeline_node |-> ref]

HasField_sub_pipeline(pipeline_or_node) == pipeline_or_node.kind = "sub_pipeline"

DeploymentConfigType == "IntermediateDeploymentConfig"

\* any_pb2.Any.Pack / Unpack of an IntermediateDeploymentConfig
Pack(msg) == [type_url |-> DeploymentConfigType, value |-> msg]

EmptyDeploymentConfig ==
  [executor_specs |-> [k \in {} |-> <<>>],
   custom_driver_specs |-> [k \in {} |-> <<>>],
   node_level_platform_configs |-> [k \in {} |-> <<>>],
   metadata_connection_config |-> <<>>]

Unpack(any) ==
  IF any.type_url = DeploymentConfigType THEN any.value ELSE EmptyDeploymentConfig

HasField_deployment_config(pipeline) == pipeline.deployment_config # None

----------------------------------------------------------------------------
(* The inputs filter_pipeline is called with *)

NumDistinct(s, i) == Cardinality({s[j] : j \in 1..i})

\* node id sequences, up to renaming: the k-th new id of a sequence is AllIds[k];
\* the proto does not keep ids unique, so an id may come back
IdSeqs ==
  {s \in UNION {[1..n -> Ids] : n \in 0..MaxNodes} :
     \A i \in 1..Len(s) : \E k \in 1..(NumDistinct(s, i - 1) + 1) : s[i] = AllIds[k]}

UniqueIdSeq(s) == \A i, j \in 1..Len(s) : s[i] = s[j] => i = j

\* every list of distinct elements of S
RECURSIVE Arrangements(_)
Arrangements(S) ==
  {<<>>} \cup UNION {{<<x>> \o t : t \in Arrangements(S \ {x})} : x \in S}

Earlier(s, i) == {s[j] : j \in 1..(i - 1)}

Later(s, i) == {s[j] : j \in (i + 1)..Len(s)}

\* per node, an upstream list over the ids before it (dir "up") or a downstream
\* list over the ids after it (dir "down"): the lists the compiler can emit
RECURSIVE EdgeChoices(_, _, _)
EdgeChoices(s, i, dir) ==
  IF i = 0 THEN {<<>>}
  ELSE {Append(p, l) : p \in EdgeChoices(s, i - 1, dir),
                       l \in Arrangements(IF dir = "up" THEN Earlier(s, i)
                                                        ELSE Later(s, i))}

\* what makes an input pipeline invalid, at most one per input
Defects(s) ==
  {[kind |-> "none", at |-> 0, id |-> ""]}
    \cup {[kind |-> "mode", at |-> 0, id |-> m] : m \in ExecutionModes \ {SYNC}}
    \cup {[kind |-> "sub_pipeline", at |-> i, id |-> ""] : i \in 1..Len(s)}
    \cup UNION {{[kind |-> "upstream", at |-> i, id |-> x] :
                    x \in Ids \ Earlier(s, i)} : i \in 1..Len(s)}
    \cup UNION {{[kind |-> "downstream", at |-> i, id |-> x] :
                    x \in Ids \ Later(s, i)} : i \in 1..Len(s)}

InputPatterns == {"none", "compiled", "mixed"}

\* node.inputs.inputs.values() of the i-th node, in iteration order, each InputSpec
\* as its list of channels. "compiled": one InputSpec per upstream node, as the
\* compiler emits; "mixed": channels of every id, upstream or not, and a second
\* InputSpec naming the upstream nodes again. A payload is the rest of a channel.
InputsOf(pattern, i, ups) ==
  CASE pattern = "none" -> <<>>
    [] pattern = "compiled" ->
         [k \in 1..Len(ups) |-> <<Channel(ups[k], <<i, k, 1>>)>>]
    [] pattern = "mixed" ->
         <<[j \in 1..MaxNodes |-> Channel(AllIds[j], <<i, 1, j>>)],
           [k \in 1..Len(ups) |-> Channel(ups[Len(ups) + 1 - k], <<i, 2, k>>)]>>

DefaultPipelineNode == PipelineNode("", <<>>, <<>>, <<>>)

DeploymentConfigOf(execs, drivers, platforms) ==
  [executor_specs |-> [k \in execs |-> <<"executor", k>>],
   custom_driver_specs |-> [k \in drivers |-> <<"driver", k>>],
   node_level_platform_configs |-> [k \in platforms |-> <<"platform", k>>],
   metadata_connection_config |-> <<"sqlite">>]

\* input_pipeline.deployment_config: unset, or an Any of per-node configs whose
\* keys need not be ids of nodes
DeploymentConfigs ==
  {None}
    \cup {<<Pack(DeploymentConfigOf({AllIds[1]}, Ids \ {AllIds[1]}, Ids))>>}

InputNode(s, i, ups, downs, pattern, defect) ==
  IF defect.kind = "sub_pipeline" /\ defect.at = i THEN DefaultPipelineNode
  ELSE LET u == IF defect.kind = "upstream" /\ defect.at = i
                THEN Append(ups[i], defect.id) ELSE ups[i]
           d == IF defect.kind = "downstream" /\ defect.at = i
                THEN Append(downs[i], defect.id) ELSE downs[i]
       IN PipelineNode(s[i], u, d, InputsOf(pattern, i, u))

InputPipeline(s, ups, downs, pattern, defect, cfg) ==
  [pipeline |->
     [execution_mode |-> IF defect.kind = "mode" THEN defect.id ELSE SYNC,
      pipeline_info |-> <<"pipeline">>,
      nodes |-> [i \in 1..Len(s) |->
                   PipelineOrNode(IF defect.kind = "sub_pipeline" /\ defect.at = i
                                  THEN "sub_pipeline" ELSE "pipeline_node", i)],
      deployment_config |-> cfg],
   heap |-> [i \in 1..Len(s) |-> InputNode(s, i, ups, downs, pattern, defect)]]

----------------------------------------------------------------------------
(* The helpers of filter_pipeline *)

NoError == ""

NotSyncError == "ValueError: Pipeline filtering is only supported for SYNC pipelines."

SubPipelineError == "ValueError: Pipeline filtering not supported for pipelines with sub-pipelines."

NotSortedError == "ValueError: Input pipeline is not topologically sorted."

KeyError == "KeyError"

_ensure_sync_pipeline(pipeline) ==
  IF pipeline.execution_mode # SYNC THEN NotSyncError ELSE NoError

\* a variant that never finds a sub-pipeline
_ensure_no_subpipeline_nodes_skipped(pipeline) == NoError

_ensure_no_subpipeline_nodes(pipeline) ==
  IF \E i \in DOMAIN pipeline.nodes : HasField_sub_pipeline(pipeline.nodes[i])
  THEN SubPipelineError ELSE NoError

\* the upstream loop: nodes in order, visited holds the ids already passed
RECURSIVE UpstreamCheck(_, _, _, _)
UpstreamCheck(h, nodes, i, visited) ==
  IF i > Len(nodes) THEN TRUE
  ELSE LET node == h[nodes[i].pipeline_node]
       IN /\ \A k \in DOMAIN node.upstream_nodes : node.upstream_nodes[k] \in visited
          /\ UpstreamCheck(h, nodes, i + 1, visited \cup {node.node_info_id})

\* the downstream loop: nodes in reverse order
RECURSIVE DownstreamCheck(_, _, _, _)
DownstreamCheck(h, nodes, i, visited) ==
  IF i < 1 THEN TRUE
  ELSE LET node == h[nodes[i].pipeline_node]
       IN /\ \A k \in DOMAIN node.downstream_nodes :
               node.downstream_nodes[k] \in visited
          /\ DownstreamCheck(h, nodes, i - 1, visited \cup {node.node_info_id})

\* a variant without the downstream loop
_ensure_topologically_sorted_upstream_only(pipeline, h) ==
  IF UpstreamCheck(h, pipeline.nodes, 1, {}) THEN NoError ELSE NotSortedError

_ensure_topologically_sorted(pipeline, h) ==
  IF /\ UpstreamCheck(h, pipeline.nodes, 1, {})
     /\ DownstreamCheck(h, pipeline.nodes, Len(pipeline.nodes), {})
  THEN NoError ELSE NotSortedError

\* lines 61-63: the first check that fails raises
ValidationError(pipeline, h) ==
  IF _ensure_sync_pipeline(pipeline) # NoError THEN _ensure_sync_pipeline(pipeline)
  ELSE IF _ensure_no_subpipeline_nodes(pipeline) # NoError
       THEN _ensure_no_subpipeline_nodes(pipeline)
       ELSE _ensure_topologically_sorted(pipeline, h)

\* node_map: node id -> reference of the input pipeline's own node
RECURSIVE MakeNodeMapFrom(_, _, _, _)
MakeNodeMapFrom(pipeline, h, i, result) ==
  IF i > Len(pipeline.nodes) THEN result
  ELSE LET ref == pipeline.nodes[i].pipeline_node
       IN MakeNodeMapFrom(pipeline, h, i + 1, OD_Set(result, h[ref].node_info_id, ref))

_make_ordered_node_map(pipeline, h) == MakeNodeMapFrom(pipeline, h, 1, OD_Empty)

UPSTREAM == "UPSTREAM"

DOWNSTREAM == "DOWNSTREAM"

\* a variant that takes the two directions for each other
Neighbours_swapped(h, ref, direction) ==
  IF direction = UPSTREAM THEN h[ref].downstream_nodes ELSE h[ref].upstream_nodes

Neighbours(h, ref, direction) ==
  IF direction = UPSTREAM THEN h[ref].upstream_nodes ELSE h[ref].downstream_nodes

\* the loops of _traverse: the stack is popped at its end; node_map[id] of an id
\* that is no key raises KeyError
RECURSIVE TraverseLoop(_, _, _, _, _, _, _)
TraverseLoop(h, nm, direction, start_nodes, i, stack, result) ==
  IF stack # <<>>
  THEN LET current_node_id == stack[Len(stack)]
           rest == SubSeq(stack, 1, Len(stack) - 1)
       IN IF current_node_id \in result
          THEN TraverseLoop(h, nm, direction, start_nodes, i, rest, result)
          ELSE IF ~OD_Has(nm, current_node_id)
               THEN [error |-> KeyError, result |-> result \cup {current_node_id}]
               ELSE TraverseLoop(h, nm, direction, start_nodes, i,
                                 rest \o Neighbours(h, nm.vals[current_node_id], direction),
                                 result \cup {current_node_id})
  ELSE IF i > Len(start_nodes) THEN [error |-> NoError, result |-> result]
       ELSE TraverseLoop(h, nm, direction, start_nodes, i + 1, <<start_nodes[i]>>, result)

\* a variant that never follows an edge
_traverse_start_nodes_only(h, nm, direction, start_nodes) ==
  [error |-> NoError, result |-> Range(start_nodes)]

_traverse(h, nm, direction, start_nodes) ==
  TraverseLoop(h, nm, direction, start_nodes, 1, <<>>, {})

Reverse(seq) == [i \in 1..Len(seq) |-> seq[Len(seq) + 1 - i]]

\* the OrderedDict of the nodes to keep, in node_map's order
RECURSIVE KeepInOrder(_, _, _, _)
KeepInOrder(nm, nodes_to_keep, i, result) ==
  IF i > Len(nm.keys) THEN result
  ELSE KeepInOrder(nm, nodes_to_keep, i + 1,
                   IF nm.keys[i] \in nodes_to_keep
                   THEN OD_Set(result, nm.keys[i], nm.vals[nm.keys[i]]) ELSE result)

\* a variant that iterates the kept ids from the last key to the first
_filter_node_map_reversed(h, nm, from_ids, to_ids) ==
  LET ancestors_of_to_nodes == _traverse(h, nm, UPSTREAM, to_ids)
      descendents_of_from_nodes == _traverse(h, nm, DOWNSTREAM, from_ids)
      nodes_to_keep == ancestors_of_to_nodes.result \cap descendents_of_from_nodes.result
  IN [error |-> NoError,
      node_map |-> KeepInOrder([nm EXCEPT !.keys = Reverse(nm.keys)],
                               nodes_to_keep, 1, OD_Empty)]

\* a variant that keeps every ancestor of to_nodes, without the intersection
_filter_node_map_ancestors_only(h, nm, from_ids, to_ids) ==
  LET ancestors_of_to_nodes == _traverse(h, nm, UPSTREAM, to_ids)
  IN [error |-> ancestors_of_to_nodes.error,
      node_map |-> KeepInOrder(nm, ancestors_of_to_nodes.result, 1, OD_Empty)]

_filter_node_map(h, nm, from_ids, to_ids) ==
  LET ancestors_of_to_nodes == _traverse(h, nm, UPSTREAM, to_ids)
      descendents_of_from_nodes == _traverse(h, nm, DOWNSTREAM, from_ids)
      nodes_to_keep == ancestors_of_to_nodes.result \cap descendents_of_from_nodes.result
  IN IF ancestors_of_to_nodes.error # NoError
     THEN [error |-> ancestors_of_to_nodes.error, node_map |-> nm]
     ELSE IF descendents_of_from_nodes.error # NoError
          THEN [error |-> descendents_of_from_nodes.error, node_map |-> nm]
          ELSE [error |-> NoError,
                node_map |-> KeepInOrder(nm, nodes_to_keep, 1, OD_Empty)]

\* a variant that rewrites the node it was given, without CopyFrom
_remove_dangling_downstream_nodes_in_place(h, node, node_ids_to_keep) ==
  [heap |-> [h EXCEPT ![node].downstream_nodes =
                        SelectSeq(@, LAMBDA d : d \in node_ids_to_keep)],
   node |-> node]

\* a variant that clears downstream_nodes and never refills it
_remove_dangling_downstream_nodes_cleared(h, node, node_ids_to_keep) ==
  LET downstream_nodes_to_keep ==
        SelectSeq(h[node].downstream_nodes, LAMBDA d : d \in node_ids_to_keep)
  IN IF Len(downstream_nodes_to_keep) = Len(h[node].downstream_nodes)
     THEN [heap |-> h, node |-> node]
     ELSE [heap |-> Append(h, [h[node] EXCEPT !.downstream_nodes = <<>>]),
           node |-> Len(h) + 1]

\* returns the node itself when nothing is dropped, else a rewritten copy
_remove_dangling_downstream_nodes(h, node, node_ids_to_keep) ==
  LET downstream_nodes_to_keep ==
        SelectSeq(h[node].downstream_nodes, LAMBDA d : d \in node_ids_to_keep)
  IN IF Len(downstream_nodes_to_keep) = Len(h[node].downstream_nodes)
     THEN [heap |-> h, node |-> node]
     ELSE [heap |-> Append(h, [h[node] EXCEPT
                                 !.downstream_nodes = downstream_nodes_to_keep]),
           node |-> Len(h) + 1]

\* the channels of a node, InputSpec after InputSpec
RECURSIVE ChannelsOf(_, _)
ChannelsOf(inputs, k) ==
  IF k > Len(inputs) THEN <<>> ELSE inputs[k] \o ChannelsOf(inputs, k + 1)

\* a variant that assigns [channel] instead of appending
RECURSIVE CollectChannels_assign(_, _, _, _)
CollectChannels_assign(channels, j, upstream_nodes_removed, dict) ==
  IF j > Len(channels) THEN dict
  ELSE CollectChannels_assign(channels, j + 1, upstream_nodes_removed,
         IF channels[j].producer_node_query_id \in upstream_nodes_removed
         THEN OD_Set(dict, channels[j].producer_node_query_id, <<channels[j]>>)
         ELSE dict)

\* input_channel_dict[producer].append(channel), for the producers removed
RECURSIVE CollectChannels(_, _, _, _)
CollectChannels(channels, j, upstream_nodes_removed, dict) ==
  IF j > Len(channels) THEN dict
  ELSE CollectChannels(channels, j + 1, upstream_nodes_removed,
         IF channels[j].producer_node_query_id \in upstream_nodes_removed
         THEN OD_Extend(dict, channels[j].producer_node_query_id, <<channels[j]>>)
         ELSE dict)

\* a variant that records the channels but leaves upstream_nodes as it was
_handle_missing_inputs_upstream_kept(h, node, node_ids_to_keep) ==
  LET ups == h[node].upstream_nodes
      upstream_nodes_removed == {ups[k] : k \in {x \in DOMAIN ups : ups[x] \notin node_ids_to_keep}}
  IN IF upstream_nodes_removed = {}
     THEN [heap |-> h, node |-> node, channels |-> OD_Empty]
     ELSE [heap |-> Append(h, h[node]),
           node |-> Len(h) + 1,
           channels |-> CollectChannels(ChannelsOf(h[node].inputs, 1), 1,
                                        upstream_nodes_removed, OD_Empty)]

\* a variant that records every channel whose producer is not kept, upstream or not
_handle_missing_inputs_any_producer(h, node, node_ids_to_keep) ==
  LET ups == h[node].upstream_nodes
      upstream_nodes_removed == {ups[k] : k \in {x \in DOMAIN ups : ups[x] \notin node_ids_to_keep}}
      upstream_nodes_to_keep == SelectSeq(ups, LAMBDA u : u \in node_ids_to_keep)
  IN IF upstream_nodes_removed = {}
     THEN [heap |-> h, node |-> node, channels |-> OD_Empty]
     ELSE [heap |-> Append(h, [h[node] EXCEPT
                                 !.upstream_nodes = upstream_nodes_to_keep]),
           node |-> Len(h) + 1,
           channels |-> CollectChannels(ChannelsOf(h[node].inputs, 1), 1,
                                        Ids \ node_ids_to_keep, OD_Empty)]

_handle_missing_inputs(h, node, node_ids_to_keep) ==
  LET ups == h[node].upstream_nodes
      upstream_nodes_removed == {ups[k] : k \in {x \in DOMAIN ups : ups[x] \notin node_ids_to_keep}}
      upstream_nodes_to_keep == SelectSeq(ups, LAMBDA u : u \in node_ids_to_keep)
  IN IF upstream_nodes_removed = {}
     THEN [heap |-> h, node |-> node, channels |-> OD_Empty]
     ELSE [heap |-> Append(h, [h[node] EXCEPT
                                 !.upstream_nodes = upstream_nodes_to_keep]),
           node |-> Len(h) + 1,
           channels |-> CollectChannels(ChannelsOf(h[node].inputs, 1), 1,
                                        upstream_nodes_removed, OD_Empty)]

\* a variant that puts the new channels before the ones already merged
RECURSIVE MergeChannels_prepend(_, _, _)
MergeChannels_prepend(merged, dict, k) ==
  IF k > Len(dict.keys) THEN merged
  ELSE MergeChannels_prepend(
         OD_Set(merged, dict.keys[k],
                dict.vals[dict.keys[k]]
                  \o (IF OD_Has(merged, dict.keys[k]) THEN merged.vals[dict.keys[k]]
                      ELSE <<>>)),
         dict, k + 1)

\* merged_input_channel_map[inner_node_id] += channel_list, over the items
RECURSIVE MergeChannels(_, _, _)
MergeChannels(merged, dict, k) ==
  IF k > Len(dict.keys) THEN merged
  ELSE MergeChannels(OD_Extend(merged, dict.keys[k], dict.vals[dict.keys[k]]),
                     dict, k + 1)

RECURSIVE FixNodesLoop(_, _, _, _, _)
FixNodesLoop(h, nm, i, fixed_nodes, merged) ==
  IF i > Len(nm.keys)
  THEN [heap |-> h, node_map |-> fixed_nodes, input_channel_map |-> merged]
  ELSE LET node_id == nm.keys[i]
           r1 == _remove_dangling_downstream_nodes(h, nm.vals[node_id], OD_KeySet(nm))
           r2 == _handle_missing_inputs(r1.heap, r1.node, OD_KeySet(nm))
       IN FixNodesLoop(r2.heap, nm, i + 1, OD_Set(fixed_nodes, node_id, r2.node),
                       MergeChannels(merged, r2.channels, 1))

_fix_nodes(h, nm) == FixNodesLoop(h, nm, 1, OD_Empty, OD_Empty)

\* a variant that deletes nothing
_fix_per_node_config_keep_all(config_map, node_ids_to_keep) == config_map

\* del config_map[node_id] for every key that is not kept
_fix_per_node_config(config_map, node_ids_to_keep) ==
  [k \in (DOMAIN config_map) \cap node_ids_to_keep |-> config_map[k]]

\* a variant that packs a default config when the field is unset
_fix_deployment_config_default(pipeline, node_ids_to_keep) ==
  LET deployment_config ==
        IF HasField_deployment_config(pipeline)
        THEN Unpack(pipeline.deployment_config[1]) ELSE EmptyDeploymentConfig
  IN <<Pack([deployment_config EXCEPT
               !.executor_specs = _fix_per_node_config(@, node_ids_to_keep),
               !.custom_driver_specs = _fix_per_node_config(@, node_ids_to_keep),
               !.node_level_platform_configs =
                  _fix_per_node_config(@, node_ids_to_keep)])>>

_fix_deployment_config(pipeline, node_ids_to_keep) ==
  IF ~HasField_deployment_config(pipeline) THEN None
  ELSE LET deployment_config == Unpack(pipeline.deployment_config[1])
       IN <<Pack([deployment_config EXCEPT
                    !.executor_specs =
                       _fix_per_node_config(@, node_ids_to_keep),
                    !.custom_driver_specs =
                       _fix_per_node_config(@, node_ids_to_keep),
                    !.node_level_platform_configs =
                       _fix_per_node_config(@, node_ids_to_keep)])>>

\* bool(x) of an Optional[Any]: a message has neither __bool__ nor __len__
Truthy(optional_message) == optional_message # None

\* a variant that builds the result without CopyFrom(input_pipeline)
_make_filtered_pipeline_no_copy(pipeline, h, nm, fixed_config) ==
  [execution_mode |-> "EXECUTION_MODE_UNSPECIFIED",
   pipeline_info |-> <<>>,
   nodes |-> [i \in 1..Len(nm.keys) |->
                [kind |-> "pipeline_node", pipeline_node |-> h[nm.vals[nm.keys[i]]]]],
   deployment_config |-> fixed_config]

\* the new Pipeline holds copies of the nodes, so it is a value of its own
_make_filtered_pipeline(pipeline, h, nm, fixed_config) ==
  LET result == [pipeline EXCEPT
                   !.nodes = [i \in 1..Len(nm.keys) |->
                                [kind |-> "pipeline_node",
                                 pipeline_node |-> h[nm.vals[nm.keys[i]]]]]]
  IN IF Truthy(fixed_config)
     THEN [result EXCEPT !.deployment_config = fixed_config]
     ELSE result

----------------------------------------------------------------------------
(* filter_pipeline, one action per statement group *)

\* no call of _traverse is being followed statement by statement
TraverseIdle ==
  /\ traverse_pc = "idle"
  /\ traverse_direction = UPSTREAM
  /\ traverse_start_nodes = <<>>
  /\ traverse_index = 0
  /\ traverse_stack = <<>>
  /\ traverse_result = {}
  /\ traverse_added = [id \in Ids |-> 0]
  /\ traverse_extended = [id \in Ids |-> 0]

Init ==
  /\ \E s \in IdSeqs :
       \E ups \in EdgeChoices(s, Len(s), "up"),
          downs \in EdgeChoices(s, Len(s), "down"),
          pattern \in InputPatterns, defect \in Defects(s),
          cfg \in DeploymentConfigs :
         LET inp == InputPipeline(s, ups, downs, pattern, defect, cfg)
         IN input_pipeline = inp.pipeline /\ heap = inp.heap
  /\ pc = "validate"
  /\ from_nodes = None
  /\ to_nodes = None
  /\ from_node_ids = <<>>
  /\ to_node_ids = <<>>
  /\ node_map = OD_Empty
  /\ input_channel_map = OD_Empty
  /\ fixed_deployment_config = None
  /\ filtered_pipeline = None
  /\ error = NoError
  /\ TraverseIdle

\* lines 61-63
Validate ==
  /\ pc = "validate"
  /\ error' = ValidationError(input_pipeline, heap)
  /\ pc' = IF error' # NoError THEN "raised" ELSE "select"
  /\ UNCHANGED <<input_pipeline, heap, from_nodes, to_nodes, from_node_ids,
                 to_node_ids, node_map, input_channel_map,
                 fixed_deployment_config, filtered_pipeline>>
  /\ UNCHANGED traverse_vars

\* lines 65-67: the predicates are called on the keys of node_map, in order
SelectNodes ==
  /\ pc = "select"
  /\ node_map' = _make_ordered_node_map(input_pipeline, heap)
  /\ \E f \in SUBSET OD_KeySet(node_map'), t \in SUBSET OD_KeySet(node_map') :
       /\ from_nodes' = <<f>>
       /\ to_nodes' = <<t>>
       /\ from_node_ids' = SelectSeq(node_map'.keys, LAMBDA id : id \in f)
       /\ to_node_ids' = SelectSeq(node_map'.keys, LAMBDA id : id \in t)
  /\ pc' = "filter"
  /\ UNCHANGED <<input_pipeline, heap, input_channel_map,
                 fixed_deployment_config, filtered_pipeline, error>>
  /\ UNCHANGED traverse_vars

\* line 68
FilterNodeMap ==
  /\ pc = "filter"
  /\ LET r == _filter_node_map(heap, node_map, from_node_ids, to_node_ids)
     IN /\ node_map' = r.node_map
        /\ error' = r.error
        /\ pc' = IF r.error # NoError THEN "raised" ELSE "fix_nodes"
  /\ UNCHANGED <<input_pipeline, heap, from_nodes, to_nodes, from_node_ids,
                 to_node_ids, input_channel_map, fixed_deployment_config,
                 filtered_pipeline>>
  /\ UNCHANGED traverse_vars

\* line 69
FixNodes ==
  /\ pc = "fix_nodes"
  /\ LET r == _fix_nodes(heap, node_map)
     IN /\ heap' = r.heap
        /\ node_map' = r.node_map
        /\ input_channel_map' = r.input_channel_map
  /\ pc' = "fix_deployment_config"
  /\ UNCHANGED <<input_pipeline, from_nodes, to_nodes, from_node_ids,
                 to_node_ids, fixed_deployment_config, filtered_pipeline, error>>
  /\ UNCHANGED traverse_vars

\* line 70
FixDeploymentConfig ==
  /\ pc = "fix_deployment_config"
  /\ fixed_deployment_config' =
       _fix_deployment_config(input_pipeline, OD_KeySet(node_map))
  /\ pc' = "make_filtered_pipeline"
  /\ UNCHANGED <<input_pipeline, heap, from_nodes, to_nodes, from_node_ids,
                 to_node_ids, node_map, input_channel_map, filtered_pipeline,
                 error>>
  /\ UNCHANGED traverse_vars

\* lines 71-73
MakeFilteredPipeline ==
  /\ pc = "make_filtered_pipeline"
  /\ filtered_pipeline' =
       <<_make_filtered_pipeline(input_pipeline, heap, node_map,
                                 fixed_deployment_config)>>
  /\ pc' = "returned"
  /\ UNCHANGED <<input_pipeline, heap, from_nodes, to_nodes, from_node_ids,
                 to_node_ids, node_map, input_channel_map,
                 fixed_deployment_config, error>>
  /\ UNCHANGED traverse_vars

Next ==
  \/ Validate
  \/ SelectNodes
  \/ FilterNodeMap
  \/ FixNodes
  \/ FixDeploymentConfig
  \/ MakeFilteredPipeline

Spec == Init /\ [][Next]_vars

----------------------------------------------------------------------------
(* _traverse, one action per statement group, on any closed node index *)

\* the lists over the ids of s that keep the order of s
SubLists(s) == {SelectSeq(s, LAMBDA x : x \in T) : T \in SUBSET Range(s)}

\* a node index whose edges in the traversed direction are nbrs, cycles and
\* self-loops included; the other direction holds the same edges reversed
IndexPipeline(s, nbrs, direction) ==
  LET back(i) == SelectSeq(s, LAMBDA x :
                   \E j \in 1..Len(s) : s[j] = x /\ s[i] \in Range(nbrs[j]))
  IN [pipeline |->
        [execution_mode |-> SYNC,
         pipeline_info |-> <<"pipeline">>,
         nodes |-> [i \in 1..Len(s) |-> PipelineOrNode("pipeline_node", i)],
         deployment_config |-> None],
      heap |-> [i \in 1..Len(s) |->
                  IF direction = UPSTREAM
                  THEN PipelineNode(s[i], nbrs[i], back(i), <<>>)
                  ELSE PipelineNode(s[i], back(i), nbrs[i], <<>>)]]

\* the call _traverse(node_map, direction, start_nodes) about to run line 175
TraverseInit ==
  /\ \E s \in {x \in IdSeqs : UniqueIdSeq(x)} :
       \E nbrs \in [1..Len(s) -> SubLists(s)], d \in {UPSTREAM, DOWNSTREAM},
          starts \in Arrangements(Range(s)) :
         LET inp == IndexPipeline(s, nbrs, d)
         IN /\ input_pipeline = inp.pipeline
            /\ heap = inp.heap
            /\ node_map = _make_ordered_node_map(inp.pipeline, inp.heap)
            /\ traverse_direction = d
            /\ traverse_start_nodes = starts
  /\ pc = "traverse"
  /\ from_nodes = None
  /\ to_nodes = None
  /\ from_node_ids = <<>>
  /\ to_node_ids = <<>>
  /\ input_channel_map = OD_Empty
  /\ fixed_deployment_config = None
  /\ filtered_pipeline = None
  /\ error = NoError
  /\ traverse_pc = "for_start_node"
  /\ traverse_index = 1
  /\ traverse_stack = <<>>
  /\ traverse_result = {}
  /\ traverse_added = [id \in Ids |-> 0]
  /\ traverse_extended = [id \in Ids |-> 0]

filter_vars == <<input_pipeline, heap, pc, from_nodes, to_nodes, from_node_ids,
                 to_node_ids, node_map, input_channel_map,
                 fixed_deployment_config, filtered_pipeline>>

CountUp(count, id) ==
  [count EXCEPT ![id] = IF @ < MaxCount THEN @ + 1 ELSE @]

\* lines 177-179: the next start node is pushed
ForStartNode ==
  /\ traverse_pc = "for_start_node"
  /\ traverse_index <= Len(traverse_start_nodes)
  /\ traverse_stack' = Append(traverse_stack, traverse_start_nodes[traverse_index])
  /\ traverse_pc' = "while_stack"
  /\ UNCHANGED <<filter_vars, error, traverse_direction, traverse_start_nodes,
                 traverse_index, traverse_result, traverse_added,
                 traverse_extended>>

\* a variant of WhileStack without the test of lines 182-183
WhileStack_without_visited_test ==
  /\ traverse_pc = "while_stack"
  /\ traverse_stack # <<>>
  /\ LET current_node_id == traverse_stack[Len(traverse_stack)]
         popped == SubSeq(traverse_stack, 1, Len(traverse_stack) - 1)
     IN IF ~OD_Has(node_map, current_node_id)
        THEN /\ error' = KeyError
             /\ traverse_pc' = "raised"
             /\ traverse_stack' = popped
             /\ traverse_result' = traverse_result \cup {current_node_id}
             /\ traverse_added' = CountUp(traverse_added, current_node_id)
             /\ UNCHANGED traverse_extended
        ELSE /\ traverse_result' = traverse_result \cup {current_node_id}
             /\ traverse_added' = CountUp(traverse_added, current_node_id)
             /\ traverse_stack' =
                  popped \o Neighbours(heap, node_map.vals[current_node_id],
                                       traverse_direction)
             /\ traverse_extended' = CountUp(traverse_extended, current_node_id)
             /\ UNCHANGED <<error, traverse_pc>>
  /\ UNCHANGED <<filter_vars, traverse_direction, traverse_start_nodes,
                 traverse_index>>

\* lines 180-188: one iteration of the while loop
WhileStack ==
  /\ traverse_pc = "while_stack"
  /\ traverse_stack # <<>>
  /\ LET current_node_id == traverse_stack[Len(traverse_stack)]
         popped == SubSeq(traverse_stack, 1, Len(traverse_stack) - 1)
     IN IF current_node_id \in traverse_result
        THEN /\ traverse_stack' = popped
             /\ UNCHANGED <<error, traverse_pc, traverse_result, traverse_added,
                            traverse_extended>>
        ELSE IF ~OD_Has(node_map, current_node_id)
        THEN /\ error' = KeyError
             /\ traverse_pc' = "raised"
             /\ traverse_stack' = popped
             /\ traverse_result' = traverse_result \cup {current_node_id}
             /\ traverse_added' = CountUp(traverse_added, current_node_id)
             /\ UNCHANGED traverse_extended
        ELSE /\ traverse_result' = traverse_result \cup {current_node_id}
             /\ traverse_added' = CountUp(traverse_added, current_node_id)
             /\ traverse_stack' =
                  popped \o Neighbours(heap, node_map.vals[current_node_id],
                                       traverse_direction)
             /\ traverse_extended' = CountUp(traverse_extended, current_node_id)
             /\ UNCHANGED <<error, traverse_pc>>
  /\ UNCHANGED <<filter_vars, traverse_direction, traverse_start_nodes,
                 traverse_index>>

\* line 180 with an empty stack: back to the for loop
EndWhile ==
  /\ traverse_pc = "while_stack"
  /\ traverse_stack = <<>>
  /\ traverse_index' = traverse_index + 1
  /\ traverse_pc' = "for_start_node"
  /\ UNCHANGED <<filter_vars, error, traverse_direction, traverse_start_nodes,
                 traverse_stack, traverse_result, traverse_added,
                 traverse_extended>>

\* line 177 with start_nodes exhausted, then line 189
ReturnResult ==
  /\ traverse_pc = "for_start_node"
  /\ traverse_index > Len(traverse_start_nodes)
  /\ traverse_pc' = "returned"
  /\ UNCHANGED <<filter_vars, error, traverse_direction, traverse_start_nodes,
                 traverse_index, traverse_stack, traverse_result, traverse_added,
                 traverse_extended>>

TraverseNext ==
  \/ ForStartNode
  \/ WhileStack
  \/ EndWhile
  \/ ReturnResult

\* the interpreter runs the loops of a call to their end
TraverseSpec == TraverseInit /\ [][TraverseNext]_vars /\ WF_vars(TraverseNext)

----------------------------------------------------------------------------
(* What the properties speak of: the input and the output as graphs *)

Returned == pc = "returned"

Raised == pc = "raised"

\* the input pipeline as a value: every reference replaced by the node it names
InputValue ==
  [execution_mode |-> input_pipeline.execution_mode,
   pipeline_info |-> input_pipeline.pipeline_info,
   nodes |-> [i \in DOMAIN input_pipeline.nodes |->
                [kind |-> input_pipeline.nodes[i].kind,
                 pipeline_node |-> heap[input_pipeline.nodes[i].pipeline_node]]],
   deployment_config |-> input_pipeline.deployment_config]

InNodes == [i \in DOMAIN InputValue.nodes |-> InputValue.nodes[i].pipeline_node]

InIdSeq == [i \in DOMAIN InNodes |-> InNodes[i].node_info_id]

InIds == Range(InIdSeq)

UniqueIds == UniqueIdSeq(InIdSeq)

InNodeById(id) == CHOOSE n \in Range(InNodes) : n.node_info_id = id

Out == filtered_pipeline[1]

OutNodes == [i \in DOMAIN Out.nodes |-> Out.nodes[i].pipeline_node]

OutIdSeq == [i \in DOMAIN OutNodes |-> OutNodes[i].node_info_id]

OutIds == Range(OutIdSeq)

\* the ids one edge away from S in a direction, and the ids reachable from S
EdgeStep(S, direction) ==
  S \cup {x \in InIds : \E y \in S :
            x \in Range(IF direction = UPSTREAM THEN InNodeById(y).upstream_nodes
                        ELSE InNodeById(y).downstream_nodes)}

RECURSIVE Reachable(_, _)
Reachable(S, direction) ==
  IF EdgeStep(S, direction) = S THEN S ELSE Reachable(EdgeStep(S, direction), direction)

Descendants == Reachable(from_nodes[1], DOWNSTREAM)

Ancestors == Reachable(to_nodes[1], UPSTREAM)

\* the three validated preconditions, stated of a sequence of node values
SortedNodes(nodes) ==
  \A i \in DOMAIN nodes :
    /\ \A k \in DOMAIN nodes[i].upstream_nodes :
         \E j \in 1..(i - 1) : nodes[j].node_info_id = nodes[i].upstream_nodes[k]
    /\ \A k \in DOMAIN nodes[i].downstream_nodes :
         \E j \in (i + 1)..Len(nodes) :
           nodes[j].node_info_id = nodes[i].downstream_nodes[k]

PassesValidation(pipeline_value) ==
  /\ pipeline_value.execution_mode = SYNC
  /\ \A i \in DOMAIN pipeline_value.nodes :
       pipeline_value.nodes[i].kind = "pipeline_node"
  /\ SortedNodes([i \in DOMAIN pipeline_value.nodes |->
                    pipeline_value.nodes[i].pipeline_node])

\* the channels a retained node lost the producer of
Listed(c, p) ==
  OD_Has(input_channel_map, p) /\ c \in Range(input_channel_map.vals[p])

PerNodeConfigs ==
  {"executor_specs", "custom_driver_specs", "node_level_platform_configs"}

InConfig == input_pipeline.deployment_config[1].value

OutConfig == Out.deployment_config[1].value

AllSelected == from_nodes = <<InIds>> /\ to_nodes = <<InIds>>

ConfigKeysAreNodeIds ==
  HasField_deployment_config(input_pipeline) =>
    \A f \in PerNodeConfigs : DOMAIN InConfig[f] \subseteq InIds

----------------------------------------------------------------------------
(* Properties *)

\* C1: with unique node ids, the returned graph holds exactly the nodes that are
\* downstream-reachable from the from_nodes ids and upstream-reachable from the
\* to_nodes ids.
C1_RetainedIsIntersection ==
  (Returned /\ UniqueIds) => OutIds = Descendants \cap Ancestors

C1_Witness ==
  /\ Returned /\ UniqueIds
  /\ OutIds # {}
  /\ OutIds # Descendants
  /\ OutIds # Ancestors
  /\ Descendants # from_nodes[1]
  /\ Ancestors # to_nodes[1]

\* C2 as stated: whatever passes the three validated preconditions, the returned
\* graph passes them too.
C2_OutputPassesValidation == Returned => PassesValidation(Out)

\* C2 amended: with unique node ids, the returned graph passes the validation:
\* upstream entries name output nodes placed earlier, downstream entries output
\* nodes placed later.
C2_OutputPassesValidationUniqueIds ==
  (Returned /\ UniqueIds) => PassesValidation(Out)

C2_Witness ==
  /\ Returned /\ UniqueIds
  /\ \E i \in DOMAIN InNodes :
       /\ InIdSeq[i] \in OutIds
       /\ Range(InNodes[i].upstream_nodes) \ OutIds # {}
  /\ \E i \in DOMAIN InNodes :
       /\ InIdSeq[i] \in OutIds
       /\ Range(InNodes[i].downstream_nodes) \ OutIds # {}

C4_OrderPreserved ==
  (Returned /\ UniqueIds) =>
    OutIdSeq = SelectSeq(InIdSeq, LAMBDA id : id \in OutIds)

C4_Witness ==
  /\ Returned /\ UniqueIds
  /\ Len(OutIdSeq) >= 2
  /\ Len(OutIdSeq) < Len(InIdSeq)

\* C5: when the input carries a deployment config, each per-node mapping of the
\* output config has the keys of the input mapping that are retained ids, with
\* the input's values.
C5_ConfigFiltered ==
  (Returned /\ HasField_deployment_config(input_pipeline)) =>
    /\ HasField_deployment_config(Out)
    /\ \A f \in PerNodeConfigs :
         /\ DOMAIN OutConfig[f] = (DOMAIN InConfig[f]) \cap OutIds
         /\ \A k \in DOMAIN OutConfig[f] : OutConfig[f][k] = InConfig[f][k]

C5_Witness ==
  /\ Returned /\ HasField_deployment_config(input_pipeline)
  /\ \E f \in PerNodeConfigs :
       /\ DOMAIN OutConfig[f] # {}
       /\ DOMAIN OutConfig[f] # DOMAIN InConfig[f]
  /\ OutConfig # InConfig

\* C6 as stated: with both predicates selecting every id, the output equals the
\* input and no channel is orphaned.
C6_Identity ==
  (Returned /\ AllSelected) => (Out = InputValue /\ input_channel_map = OD_Empty)

\* C6 amended: with unique node ids, per-node config keys that are all node ids
\* and both predicates selecting every id, the output equals the input and no
\* channel is orphaned.
C6_IdentityUniqueIdsOwnKeys ==
  (Returned /\ AllSelected /\ UniqueIds /\ ConfigKeysAreNodeIds) =>
    (Out = InputValue /\ input_channel_map = OD_Empty)

C6_Witness ==
  /\ Returned /\ AllSelected /\ UniqueIds /\ ConfigKeysAreNodeIds
  /\ HasField_deployment_config(input_pipeline)
  /\ \E i \in DOMAIN InNodes : Len(InNodes[i].upstream_nodes) = 2
  /\ \E i \in DOMAIN InNodes : Len(InNodes[i].downstream_nodes) = 2

\* C7: no step of filter_pipeline changes the input pipeline: its nodes, their
\* upstream and downstream lists and channels, its mode and its deployment config.
C7_InputNeverMutated == [][InputValue' = InputValue]_vars

C7_Witness ==
  /\ Returned
  /\ Len(heap) > Len(input_pipeline.nodes) + 1
  /\ HasField_deployment_config(input_pipeline)
  /\ OutConfig # InConfig
  /\ OutNodes # <<>>

PassedValidator == pc = "select" \/ from_nodes # None

\* C8: filter_pipeline raises exactly when the input fails a validated
\* precondition, and then no predicate was called and nothing was traversed,
\* repaired or built; an input that passes them is never rejected.
C8_ValidationFailFastExact ==
  /\ Raised =>
       /\ ~PassesValidation(InputValue)
       /\ from_nodes = None /\ to_nodes = None
       /\ from_node_ids = <<>> /\ to_node_ids = <<>>
       /\ node_map = OD_Empty /\ input_channel_map = OD_Empty
       /\ fixed_deployment_config = None /\ filtered_pipeline = None
       /\ Len(heap) = Len(input_pipeline.nodes)
  /\ pc \notin {"validate", "raised"} => PassesValidation(InputValue)

C8_Witness ==
  /\ Raised
  /\ error = NotSortedError
  /\ Len(input_pipeline.nodes) = MaxNodes
  /\ \E i \in DOMAIN InNodes : Len(InNodes[i].downstream_nodes) = MaxNodes

\* C9: once the validator passed, no later stage fails: the ids the sweeps start
\* from and every upstream or downstream id of an indexed node are keys of the
\* node index, no stage raises, and the returned state holds both results.
C9_TotalAfterValidation ==
  PassedValidator =>
    /\ error = NoError
    /\ ~Raised
    /\ pc = "filter" =>
         /\ Range(from_node_ids) \cup Range(to_node_ids) \subseteq OD_KeySet(node_map)
         /\ \A k \in OD_KeySet(node_map) :
              Range(heap[node_map.vals[k]].upstream_nodes)
                \cup Range(heap[node_map.vals[k]].downstream_nodes)
                  \subseteq OD_KeySet(node_map)
    /\ Returned =>
         /\ filtered_pipeline # None
         /\ OD_KeySet(node_map) = OutIds
         /\ \A i \in DOMAIN OutNodes : OutNodes[i] = heap[node_map.vals[OutIdSeq[i]]]

C9_Witness ==
  /\ Returned
  /\ Len(OutNodes) = MaxNodes
  /\ \E i \in DOMAIN OutNodes : Len(OutNodes[i].upstream_nodes) = 2
  /\ input_channel_map = OD_Empty

\* C10: an input without deployment config gives an output without one, and an
\* input with one gives an output with one, its three mappings empty when no
\* node is retained.
C10_AbsentConfigStaysAbsent ==
  Returned =>
    /\ HasField_deployment_config(Out) <=> HasField_deployment_config(input_pipeline)
    /\ (HasField_deployment_config(input_pipeline) /\ OutIds = {}) =>
         /\ Out.nodes = <<>>
         /\ \A f \in PerNodeConfigs : DOMAIN OutConfig[f] = {}

C10_Witness ==
  /\ Returned
  /\ ~HasField_deployment_config(input_pipeline)
  /\ ~HasField_deployment_config(Out)
  /\ OutIds # {}
  /\ OutIds # InIds

\* the channels listed under p, none when p is no key
OrphanedChannels(p) ==
  IF OD_Has(input_channel_map, p) THEN input_channel_map.vals[p] ELSE <<>>

ChannelsProducedBy(node, p) ==
  SelectSeq(ChannelsOf(node.inputs, 1), LAMBDA c : c.producer_node_query_id = p)

\* C12: when from_nodes selects every id, the retained ids are the ids
\* upstream-reachable from the to_nodes ids, every output node keeps its input
\* upstream list, and no channel is orphaned.
C12_DefaultFromKeepsUpstreams ==
  (Returned /\ UniqueIds /\ from_nodes = <<InIds>>) =>
    /\ OutIds = Ancestors
    /\ \A i \in DOMAIN OutNodes :
         OutNodes[i].upstream_nodes = InNodeById(OutIdSeq[i]).upstream_nodes
    /\ input_channel_map = OD_Empty

C12_Witness ==
  /\ Returned /\ UniqueIds /\ from_nodes = <<InIds>>
  /\ to_nodes[1] # InIds
  /\ OutIds # to_nodes[1]
  /\ \E i \in DOMAIN OutNodes :
       /\ Len(OutNodes[i].upstream_nodes) = 1
       /\ OutNodes[i].downstream_nodes # InNodeById(OutIdSeq[i]).downstream_nodes
  /\ \E i \in DOMAIN InNodes : ChannelsOf(InNodes[i].inputs, 1) # <<>>

\* the channels with producer p of the retained nodes (of those that list p in
\* their input upstream_nodes when listed_only), in output sequence order and
\* in each node's own channel order
RECURSIVE ConcatProducedBy(_, _, _)
ConcatProducedBy(p, i, listed_only) ==
  IF i > Len(OutIdSeq) THEN <<>>
  ELSE (IF listed_only /\ p \notin Range(InNodeById(OutIdSeq[i]).upstream_nodes)
        THEN <<>> ELSE ChannelsProducedBy(InNodeById(OutIdSeq[i]), p))
       \o ConcatProducedBy(p, i + 1, listed_only)

C15_OrphanSoundness ==
  (Returned /\ UniqueIds) =>
    \A p \in OD_KeySet(input_channel_map) :
      /\ p \notin OutIds
      /\ \E id \in OutIds : p \in Range(InNodeById(id).upstream_nodes)
      /\ input_channel_map.vals[p] # <<>>
      /\ \A k \in DOMAIN input_channel_map.vals[p] :
           LET c == input_channel_map.vals[p][k] IN
           /\ c.producer_node_query_id = p
           /\ \E id \in OutIds :
                /\ p \in Range(InNodeById(id).upstream_nodes)
                /\ c \in Range(ChannelsOf(InNodeById(id).inputs, 1))

C15_Witness ==
  /\ Returned /\ UniqueIds
  /\ OD_KeySet(input_channel_map) # {}
  /\ \E id \in OutIds :
       \E c \in Range(ChannelsOf(InNodeById(id).inputs, 1)) :
         /\ c.producer_node_query_id \in InIds \ OutIds
         /\ c.producer_node_query_id \notin Range(InNodeById(id).upstream_nodes)

\* B is in A's downstream_nodes exactly when A is in B's upstream_nodes
SymmetricEdges ==
  \A a, b \in InIds :
    b \in Range(InNodeById(a).downstream_nodes)
      <=> a \in Range(InNodeById(b).upstream_nodes)

\* C16: with symmetric edges, a node on a producer-to-consumer path between
\* two retained nodes is retained.
C16_RetainedIsPathConvex ==
  (Returned /\ UniqueIds /\ SymmetricEdges) =>
    \A X, Y \in OutIds : \A Z \in InIds :
      (Z \in Reachable({X}, DOWNSTREAM) /\ Y \in Reachable({Z}, DOWNSTREAM))
        => Z \in OutIds

C16_Witness ==
  /\ Returned /\ UniqueIds /\ SymmetricEdges
  /\ \E X, Y \in OutIds : \E Z \in OutIds \ {X, Y} :
       /\ Z \in Reachable({X}, DOWNSTREAM) /\ Y \in Reachable({Z}, DOWNSTREAM)
       /\ Z \notin from_nodes[1] \cup to_nodes[1]
  /\ OutIds # InIds \/ Len(InIdSeq) = MaxNodes

\* C11: on every node index whose edges stay inside it, cycles and self-loops
\* included, for both directions and every list of start ids, _traverse
\* returns; every id is added to result at most once and has its neighbours
\* pushed at most once; at the return the stack is empty and result is the set
\* of ids reachable from the start ids in the direction.
C11_TraverseTerminates ==
  /\ [](\A id \in Ids : traverse_added[id] <= 1 /\ traverse_extended[id] <= 1)
  /\ [](traverse_pc = "returned" =>
          /\ traverse_stack = <<>>
          /\ error = NoError
          /\ traverse_result
               = Reachable(Range(traverse_start_nodes), traverse_direction))
  /\ <>(traverse_pc = "returned")

C11_Witness ==
  /\ traverse_pc = "returned"
  /\ traverse_result # Range(traverse_start_nodes)
  /\ traverse_result # InIds
  /\ \E id \in traverse_result :
       id \in Range(Neighbours(heap, node_map.vals[id], traverse_direction))
  /\ \E a, b \in traverse_result :
       /\ a # b
       /\ b \in Range(Neighbours(heap, node_map.vals[a], traverse_direction))
       /\ a \in Range(Neighbours(heap, node_map.vals[b], traverse_direction))

====
